---- MODULE Spec2Model ----
(***************************************************************************)
(* Model of pgx/src/fcinfo.rs: the function-call-frame accessors of the    *)
(* pg10/pg11 layout (parallel arrays arg[100] / argnull[100]) and of the   *)
(* pg12 layout (a tail of NullableDatum pairs behind the header), and      *)
(* direct_function_call, which stages an argument list, builds a frame     *)
(* with make_function_call_info, invokes a function on it and wraps the    *)
(* returned datum together with the frame's isnull flag.                   *)
(*                                                                         *)
(* The invoked function is modelled as an arbitrary caller of the          *)
(* accessors: while it runs it may call any accessor with any index, call  *)
(* pg_return_null, overwrite argument slot 0 through the frame pointer,    *)
(* panic, or return any datum.                                             *)
(***************************************************************************)
EXTENDS Integers, Sequences, FiniteSets, TLC

\* ------------------------------------------------------------------------
\* Bounds of the model
\* ------------------------------------------------------------------------
\* raw datums range over 0..MaxDatum
MaxDatum == 1
\* every argument list of length 0..MaxLen is enumerated
MaxLen == 2
\* number of consecutive direct_function_calls of one backend
MaxCalls == 2
\* largest argument handed to add_two_numbers_wrapper
MaxAddend == 3

\* ------------------------------------------------------------------------
\* Program constants
\* ------------------------------------------------------------------------
\* capacity of null_array / arg_array and of arg[] / argnull[]
FuncMaxArgs == 100
\* bytes of a pointer / usize / Datum on the 64-bit target
WordSize == 8
\* the null pointer
NULL == 0
\* pg_sys::InvalidOid
InvalidOid == 0

Layouts == {"pg10", "pg11", "pg12"}
Datum == 0..MaxDatum

\* ------------------------------------------------------------------------
\* Integer conversions
\* ------------------------------------------------------------------------
\* `nargs as i16`: truncation of a usize to 16 bits, two's complement
AsI16(n) ==
  LET m == n % 65536 IN IF m >= 32768 THEN m - 65536 ELSE m

\* ------------------------------------------------------------------------
\* repr(C) layout of the pg12 structs
\* ------------------------------------------------------------------------
\* round off up to the next multiple of align
AlignUp(off, align) ==
  ((off + align - 1) \div align) * align

RECURSIVE LayoutEnd(_, _, _)
\* offset behind the last field of a repr(C) struct whose fields are
\* <<size, align>> pairs, starting at field k with running offset off
LayoutEnd(fields, k, off) ==
  IF k > Len(fields) THEN off
  ELSE LayoutEnd(fields, k + 1, AlignUp(off, fields[k][2]) + fields[k][1])

RECURSIVE MaxAlign(_, _)
MaxAlign(fields, k) ==
  IF k > Len(fields) THEN 1
  ELSE LET r == MaxAlign(fields, k + 1)
       IN IF fields[k][2] > r THEN fields[k][2] ELSE r

\* std::mem::size_of of a repr(C) struct
SizeOf(fields) ==
  AlignUp(LayoutEnd(fields, 1, 0), MaxAlign(fields, 1))

\* NullableDatum { value: Datum, isnull: bool }
NullableDatumFields == << <<WordSize, WordSize>>, <<1, 1>> >>

\* FunctionCallInfoBaseData { flinfo, context, resultinfo: pointers;
\* fncollation: Oid (u32); isnull: bool; nargs: c_short;
\* args: __IncompleteArrayField<NullableDatum> (no bytes, aligned as its element) }
FunctionCallInfoBaseDataFields ==
  << <<WordSize, WordSize>>, <<WordSize, WordSize>>, <<WordSize, WordSize>>,
     <<4, 4>>, <<1, 1>>, <<2, 2>>, <<0, WordSize>> >>

\* std::mem::size_of::<FunctionCallInfoBaseData>()
HeaderSize == SizeOf(FunctionCallInfoBaseDataFields)
\* std::mem::size_of::<NullableDatum>()
PairSize == SizeOf(NullableDatumFields)

\* ------------------------------------------------------------------------
\* PgDatum: the nullable-value wrapper, a (raw value, null flag) pair
\* ------------------------------------------------------------------------
PgDatum_new(datum, isnull) == [datum |-> datum, is_null |-> isnull]
PgDatum_is_null(d) == d.is_null
PgDatum_into_datum(d) == d.datum

\* ------------------------------------------------------------------------
\* Argument lists handed to direct_function_call
\* ------------------------------------------------------------------------
PgDatums == {PgDatum_new(v, n) : v \in Datum, n \in BOOLEAN}

\* lengths beyond MaxLen that are tried with one list each
LongLens == {8, FuncMaxArgs, FuncMaxArgs + 1}

LongArgs(n) ==
  [i \in 1..n |-> PgDatum_new(i % (MaxDatum + 1), i % 3 = 0)]

ArgLists ==
  UNION {[1..n -> PgDatums] : n \in 0..MaxLen} \cup {LongArgs(n) : n \in LongLens}

\* ------------------------------------------------------------------------
\* direct_function_call, lines 167-174: staging of the arguments
\* ------------------------------------------------------------------------
ZeroArgArray == [i \in 0..(FuncMaxArgs - 1) |-> 0]
FalseNullArray == [i \in 0..(FuncMaxArgs - 1) |-> FALSE]

\* staging that keeps the first 100 arguments of a longer list
StageArgs_truncating(a) ==
  [panicked |-> FALSE,
   arg_array |-> [i \in 0..(FuncMaxArgs - 1) |->
                    IF i < Len(a) THEN PgDatum_into_datum(a[i + 1]) ELSE 0],
   null_array |-> [i \in 0..(FuncMaxArgs - 1) |->
                    IF i < Len(a) THEN PgDatum_is_null(a[i + 1]) ELSE FALSE]]

\* staging whose arrays hold 99 arguments only
StageArgs_off_by_one(a) ==
  [panicked |-> Len(a) >= FuncMaxArgs,
   arg_array |-> [i \in 0..(FuncMaxArgs - 1) |->
                    IF i < Len(a) THEN PgDatum_into_datum(a[i + 1]) ELSE 0],
   null_array |-> [i \in 0..(FuncMaxArgs - 1) |->
                    IF i < Len(a) THEN PgDatum_is_null(a[i + 1]) ELSE FALSE]]

\* staging that reads the last argument first and so fails for the empty list
StageArgs_nonempty(a) ==
  [panicked |-> Len(a) = 0 \/ Len(a) > FuncMaxArgs,
   arg_array |-> [i \in 0..(FuncMaxArgs - 1) |->
                    IF i < Len(a) THEN PgDatum_into_datum(a[i + 1]) ELSE 0],
   null_array |-> [i \in 0..(FuncMaxArgs - 1) |->
                    IF i < Len(a) THEN PgDatum_is_null(a[i + 1]) ELSE FALSE]]

\* staging that fills the arrays from the end of the list
StageArgs_reversed(a) ==
  [panicked |-> Len(a) > FuncMaxArgs,
   arg_array |-> [i \in 0..(FuncMaxArgs - 1) |->
                    IF i < Len(a) THEN PgDatum_into_datum(a[Len(a) - i]) ELSE 0],
   null_array |-> [i \in 0..(FuncMaxArgs - 1) |->
                    IF i < Len(a) THEN PgDatum_is_null(a[Len(a) - i]) ELSE FALSE]]

\* the loop over args.into_iter().enumerate(): element i of the list goes to
\* index i of both arrays; indexing the 100-element arrays with i >= 100
\* panics, which happens exactly when the list has more than 100 elements
StageArgs(a) ==
  [panicked |-> Len(a) > FuncMaxArgs,
   arg_array |-> [i \in 0..(FuncMaxArgs - 1) |->
                    IF i < Len(a) THEN PgDatum_into_datum(a[i + 1]) ELSE 0],
   null_array |-> [i \in 0..(FuncMaxArgs - 1) |->
                    IF i < Len(a) THEN PgDatum_is_null(a[i + 1]) ELSE FALSE]]

\* ------------------------------------------------------------------------
\* make_function_call_info
\* ------------------------------------------------------------------------
\* make_function_call_info (pg10) that leaves the argument arrays zeroed
make_function_call_info_pg10_unfilled(n, arg_arr, null_arr) ==
  [flinfo |-> NULL, context |-> NULL, resultinfo |-> NULL,
   fncollation |-> InvalidOid, isnull |-> FALSE, nargs |-> AsI16(n),
   arg |-> ZeroArgArray, argnull |-> FalseNullArray]

\* make_function_call_info (pg10) whose frame starts with the null flag set
make_function_call_info_pg10_flagged(n, arg_arr, null_arr) ==
  [flinfo |-> NULL, context |-> NULL, resultinfo |-> NULL,
   fncollation |-> InvalidOid, isnull |-> TRUE, nargs |-> AsI16(n),
   arg |-> arg_arr, argnull |-> null_arr]

\* pg10: the FunctionCallInfoData struct literal handed to PgBox::new_from_struct
make_function_call_info_pg10(n, arg_arr, null_arr) ==
  [flinfo |-> NULL, context |-> NULL, resultinfo |-> NULL,
   fncollation |-> InvalidOid, isnull |-> FALSE, nargs |-> AsI16(n),
   arg |-> arg_arr, argnull |-> null_arr]

\* make_function_call_info (pg11) declaring the capacity as the count
make_function_call_info_pg11_capacity(n, arg_arr, null_arr) ==
  [flinfo |-> NULL, context |-> NULL, resultinfo |-> NULL,
   fncollation |-> InvalidOid, isnull |-> FALSE, nargs |-> AsI16(FuncMaxArgs),
   arg |-> arg_arr, argnull |-> null_arr]

\* pg11: the same struct literal for pg11_specific::FunctionCallInfoData
make_function_call_info_pg11(n, arg_arr, null_arr) ==
  [flinfo |-> NULL, context |-> NULL, resultinfo |-> NULL,
   fncollation |-> InvalidOid, isnull |-> FALSE, nargs |-> AsI16(n),
   arg |-> arg_arr, argnull |-> null_arr]

\* pg_sys::palloc0(size) seen as a FunctionCallInfoBaseData: size zeroed bytes,
\* that is a zeroed header followed by as many whole zeroed NullableDatum
\* pairs as fit behind it
palloc0(size) ==
  [size |-> size,
   flinfo |-> NULL, context |-> NULL, resultinfo |-> NULL,
   fncollation |-> 0, isnull |-> FALSE, nargs |-> 0,
   tail |-> [k \in 1..((size - HeaderSize) \div PairSize) |->
               [value |-> 0, isnull |-> FALSE]]]

\* make_function_call_info (pg12) sizing the tail with size_of::<Datum>()
make_function_call_info_pg12_datum_sized(n, arg_arr, null_arr) ==
  LET blk == palloc0(HeaderSize + n * WordSize)
  IN [blk EXCEPT
        !.nargs = AsI16(n),
        !.tail = [k \in 1..Len(blk.tail) |->
                    IF k - 1 < n
                    THEN [value |-> arg_arr[k - 1], isnull |-> null_arr[k - 1]]
                    ELSE blk.tail[k]]]

\* make_function_call_info (pg12) storing the negated null flag
make_function_call_info_pg12_inverted(n, arg_arr, null_arr) ==
  LET blk == palloc0(HeaderSize + n * PairSize)
  IN [blk EXCEPT
        !.nargs = AsI16(n),
        !.tail = [k \in 1..Len(blk.tail) |->
                    IF k - 1 < n
                    THEN [value |-> arg_arr[k - 1], isnull |-> ~null_arr[k - 1]]
                    ELSE blk.tail[k]]]

\* pg12: allocation, fcid.nargs = nargs as i16, then slice[i] = NullableDatum
\* {value: arg_array[i], isnull: null_array[i]} for i in 0..nargs
make_function_call_info_pg12(n, arg_arr, null_arr) ==
  LET blk == palloc0(HeaderSize + n * PairSize)
  IN [blk EXCEPT
        !.nargs = AsI16(n),
        !.tail = [k \in 1..Len(blk.tail) |->
                    IF k - 1 < n
                    THEN [value |-> arg_arr[k - 1], isnull |-> null_arr[k - 1]]
                    ELSE blk.tail[k]]]

make_function_call_info(lay, n, arg_arr, null_arr) ==
  CASE lay = "pg10" -> make_function_call_info_pg10(n, arg_arr, null_arr)
    [] lay = "pg11" -> make_function_call_info_pg11(n, arg_arr, null_arr)
    [] lay = "pg12" -> make_function_call_info_pg12(n, arg_arr, null_arr)

\* ------------------------------------------------------------------------
\* Outcomes of a call of an accessor.  An accessor yields the SET of outcomes
\* it can have: one outcome where the code is defined, several where it reads
\* memory that does not belong to the frame.
\*   st     "ok": returned, "panic": Rust panic, "trap": memory fault
\*   value  the datum returned (Datum, Some(datum), PgDatum's datum)
\*   isnull the flag returned (bool, PgDatum's null flag)
\*   some   the Option returned is Some
\*   oob    memory outside the frame's allocation was read
\* ------------------------------------------------------------------------
Returned(v, n, sm, ob) ==
  [st |-> "ok", value |-> v, isnull |-> n, some |-> sm, oob |-> ob]
Panic ==
  [st |-> "panic", value |-> 0, isnull |-> FALSE, some |-> FALSE, oob |-> FALSE]
Trap ==
  [st |-> "trap", value |-> 0, isnull |-> FALSE, some |-> FALSE, oob |-> TRUE]

\* ------------------------------------------------------------------------
\* mod pg_10_11
\* ------------------------------------------------------------------------
\* arg[num + 1] instead of arg[num]
arg_at_off_by_one(h, p, num) ==
  IF p = NULL \/ num + 1 >= FuncMaxArgs THEN Panic
  ELSE Returned(h[p].arg[num + 1], FALSE, FALSE, FALSE)

\* unsafe { fcinfo.as_ref() }.unwrap().arg[num]: None.unwrap() panics for the
\* null pointer, indexing [Datum; 100] panics for num >= 100
arg_at(h, p, num) ==
  IF p = NULL \/ num >= FuncMaxArgs THEN Panic
  ELSE Returned(h[p].arg[num], FALSE, FALSE, FALSE)

\* argnull[num] read without the unwrap: the null pointer yields false
argnull_at_unchecked(h, p, num) ==
  IF num >= FuncMaxArgs THEN Panic
  ELSE IF p = NULL THEN Returned(0, FALSE, FALSE, FALSE)
  ELSE Returned(0, h[p].argnull[num], FALSE, FALSE)

\* unsafe { fcinfo.as_ref() }.unwrap().argnull[num] as bool
argnull_at(h, p, num) ==
  IF p = NULL \/ num >= FuncMaxArgs THEN Panic
  ELSE Returned(0, h[p].argnull[num], FALSE, FALSE)

\* pg_getarg (pg10/pg11) that wraps the raw value 0 for a null argument
pg_10_11_pg_getarg_null_zero(h, p, num) ==
  LET d == arg_at(h, p, num)
      n == argnull_at(h, p, num)
  IN IF d.st # "ok" THEN {d}
     ELSE IF n.st # "ok" THEN {n}
     ELSE LET w == PgDatum_new(IF n.isnull THEN 0 ELSE d.value, n.isnull)
          IN {Returned(w.datum, w.is_null, FALSE, FALSE)}

pg_10_11_pg_getarg(h, p, num) ==
  LET d == arg_at(h, p, num)
      n == argnull_at(h, p, num)
  IN IF d.st # "ok" THEN {d}
     ELSE IF n.st # "ok" THEN {n}
     ELSE LET w == PgDatum_new(d.value, n.isnull)
          IN {Returned(w.datum, w.is_null, FALSE, FALSE)}

pg_10_11_pg_arg_is_null(h, p, num) ==
  {argnull_at(h, p, num)}

pg_10_11_pg_getarg_datum(h, p, num) ==
  UNION {IF n.st # "ok" THEN {n}
         ELSE IF n.isnull THEN {Returned(0, FALSE, FALSE, FALSE)}
         ELSE LET d == arg_at(h, p, num)
              IN IF d.st # "ok" THEN {d}
                 ELSE {Returned(d.value, FALSE, TRUE, FALSE)}
         : n \in pg_10_11_pg_arg_is_null(h, p, num)}

\* pg_getarg_datum_raw (pg10/pg11) handing out 0 for a null argument
pg_10_11_pg_getarg_datum_raw_null_zero(h, p, num) ==
  {IF n.st # "ok" THEN n
   ELSE IF n.isnull THEN Returned(0, FALSE, FALSE, FALSE)
   ELSE arg_at(h, p, num)
   : n \in pg_10_11_pg_arg_is_null(h, p, num)}

pg_10_11_pg_getarg_datum_raw(h, p, num) ==
  {arg_at(h, p, num)}

\* ------------------------------------------------------------------------
\* mod pg_12
\* ------------------------------------------------------------------------
\* a read of memory that does not belong to the frame: any pair may come
\* back, or the read faults
ForeignRead ==
  {Returned(v, n, FALSE, TRUE) : v \in Datum, n \in BOOLEAN} \cup {Trap}

\* fcinfo.args.as_slice(len)[num] with len = size_of::<NullableDatum>() * nargs:
\* the slice starts at the tail and claims len ELEMENTS; the index is checked
\* against len only.  An index below len that lies behind the pairs of the
\* allocation is a foreign read.  A negative c_short sign-extends in
\* `nargs as usize`: the product overflows (a panic where overflow is checked)
\* or wraps to a length above every index.
get_nullable_datum(h, p, num) ==
  IF p = NULL THEN {Panic}
  ELSE LET f == h[p]
       IN IF f.nargs < 0
          THEN {Panic} \cup
               (IF num < Len(f.tail)
                THEN {Returned(f.tail[num + 1].value, f.tail[num + 1].isnull, FALSE, FALSE)}
                ELSE ForeignRead)
          ELSE LET len == PairSize * f.nargs
               IN IF num >= len THEN {Panic}
                  ELSE IF num < Len(f.tail)
                  THEN {Returned(f.tail[num + 1].value, f.tail[num + 1].isnull,
                                 FALSE, FALSE)}
                  ELSE ForeignRead

pg_12_pg_getarg(h, p, num) ==
  {IF d.st # "ok" THEN d
   ELSE LET w == PgDatum_new(d.value, d.isnull)
        IN Returned(w.datum, w.is_null, FALSE, d.oob)
   : d \in get_nullable_datum(h, p, num)}

\* pg_arg_is_null (pg12) answering with the opposite of the pair's flag
pg_12_pg_arg_is_null_negated(h, p, num) ==
  {IF d.st # "ok" THEN d ELSE Returned(0, ~d.isnull, FALSE, d.oob)
   : d \in get_nullable_datum(h, p, num)}

pg_12_pg_arg_is_null(h, p, num) ==
  {IF d.st # "ok" THEN d ELSE Returned(0, d.isnull, FALSE, d.oob)
   : d \in get_nullable_datum(h, p, num)}

\* pg_getarg_datum (pg12) with the null test negated
pg_12_pg_getarg_datum_inverted(h, p, num) ==
  UNION {IF n.st # "ok" THEN {n}
         ELSE IF ~n.isnull THEN {Returned(0, FALSE, FALSE, n.oob)}
         ELSE {IF d.st # "ok" THEN d ELSE Returned(d.value, FALSE, TRUE, d.oob)
               : d \in get_nullable_datum(h, p, num)}
         : n \in pg_12_pg_arg_is_null(h, p, num)}

pg_12_pg_getarg_datum(h, p, num) ==
  UNION {IF n.st # "ok" THEN {n}
         ELSE IF n.isnull THEN {Returned(0, FALSE, FALSE, n.oob)}
         ELSE {IF d.st # "ok" THEN d ELSE Returned(d.value, FALSE, TRUE, d.oob)
               : d \in get_nullable_datum(h, p, num)}
         : n \in pg_12_pg_arg_is_null(h, p, num)}

pg_12_pg_getarg_datum_raw(h, p, num) ==
  {IF d.st # "ok" THEN d ELSE Returned(d.value, FALSE, FALSE, d.oob)
   : d \in get_nullable_datum(h, p, num)}

\* ------------------------------------------------------------------------
\* pub use pg_10_11::* / pub use pg_12::*: the accessors of the active layout
\* ------------------------------------------------------------------------
pg_getarg(lay, h, p, num) ==
  IF lay = "pg12" THEN pg_12_pg_getarg(h, p, num)
  ELSE pg_10_11_pg_getarg(h, p, num)

pg_arg_is_null(lay, h, p, num) ==
  IF lay = "pg12" THEN pg_12_pg_arg_is_null(h, p, num)
  ELSE pg_10_11_pg_arg_is_null(h, p, num)

pg_getarg_datum(lay, h, p, num) ==
  IF lay = "pg12" THEN pg_12_pg_getarg_datum(h, p, num)
  ELSE pg_10_11_pg_getarg_datum(h, p, num)

pg_getarg_datum_raw(lay, h, p, num) ==
  IF lay = "pg12" THEN pg_12_pg_getarg_datum_raw(h, p, num)
  ELSE pg_10_11_pg_getarg_datum_raw(h, p, num)

Accessors == {"pg_getarg", "pg_arg_is_null", "pg_getarg_datum", "pg_getarg_datum_raw"}

Accessor(op, lay, h, p, num) ==
  CASE op = "pg_getarg" -> pg_getarg(lay, h, p, num)
    [] op = "pg_arg_is_null" -> pg_arg_is_null(lay, h, p, num)
    [] op = "pg_getarg_datum" -> pg_getarg_datum(lay, h, p, num)
    [] op = "pg_getarg_datum_raw" -> pg_getarg_datum_raw(lay, h, p, num)

\* ------------------------------------------------------------------------
\* common: pg_getarg_pointer, pg_getarg_cstr
\* ------------------------------------------------------------------------
\* datum as *mut T: a cast from usize to a raw pointer, both WordSize bytes
\* wide on the target, so no bit is dropped or added
AsPointer(datum) == datum

\* match pg_getarg_datum(fcinfo, num) { Some(datum) => Some(datum as *mut T),
\* None => None }
pg_getarg_pointer(lay, h, p, num) ==
  {IF d.st # "ok" THEN d
   ELSE IF d.some THEN Returned(AsPointer(d.value), FALSE, TRUE, d.oob)
   ELSE Returned(0, FALSE, FALSE, d.oob)
   : d \in pg_getarg_datum(lay, h, p, num)}

\* unsafe { std::ffi::CStr::from_ptr(ptr) }: strlen(ptr), then a &CStr made of
\* ptr and that length.  For any pointer but null the outcome depends on what
\* the caller put into the datum: a reference to the string at ptr, or a
\* fault when ptr does not point to readable memory.  For the null pointer
\* the behaviour is undefined: the read of address 0 faults, or, where the
\* build drops or delays the strlen call, a reference whose data pointer is
\* null comes back, and Option<&CStr> keeps None in exactly that bit pattern,
\* so the caller of pg_getarg_cstr sees None.
CStr_from_ptr(ptr) ==
  IF ptr = NULL THEN {Trap, Returned(0, FALSE, FALSE, TRUE)}
  ELSE {Returned(ptr, FALSE, TRUE, FALSE), Trap}

\* match pg_getarg_pointer(fcinfo, num) { Some(ptr) => Some(CStr::from_ptr(ptr)),
\* None => None }
pg_getarg_cstr(lay, h, p, num) ==
  UNION {IF r.st # "ok" THEN {r}
         ELSE IF r.some THEN CStr_from_ptr(r.value)
         ELSE {Returned(0, FALSE, FALSE, r.oob)}
         : r \in pg_getarg_pointer(lay, h, p, num)}

PointerAccessors == {"pg_getarg_pointer", "pg_getarg_cstr"}

PointerAccessor(op, lay, h, p, num) ==
  IF op = "pg_getarg_pointer" THEN pg_getarg_pointer(lay, h, p, num)
  ELSE pg_getarg_cstr(lay, h, p, num)

\* a read accessor that takes the argument out of the frame: the slot it read
\* is left null
Accessor_heap_taking(op, lay, h, p, num) ==
  IF p = NULL \/ num >= h[p].nargs THEN h
  ELSE IF lay = "pg12" THEN [h EXCEPT ![p].tail[num + 1].isnull = TRUE]
  ELSE [h EXCEPT ![p].argnull[num] = TRUE]

\* the frames after a read accessor returned: the four accessors borrow the
\* frame and only read it (as_ref in pg_10_11; in pg_12 get_nullable_datum
\* copies the pair out of the slice), so no frame is written
Accessor_heap(op, lay, h, p, num) == h

\* pg_return_null that returns the zero datum and leaves the flag alone
pg_return_null_flag_unset(h, p) ==
  IF p = NULL THEN [heap |-> h, out |-> Panic]
  ELSE [heap |-> h, out |-> Returned(0, FALSE, FALSE, FALSE)]

\* pg_return_null that also declares the frame empty
pg_return_null_resetting(h, p) ==
  IF p = NULL THEN [heap |-> h, out |-> Panic]
  ELSE [heap |-> [h EXCEPT ![p].isnull = TRUE, ![p].nargs = 0],
        out |-> Returned(0, FALSE, FALSE, FALSE)]

\* pg_return_null of either module: the frame after the call and the outcome;
\* as_mut().unwrap() panics for the null pointer
pg_return_null(h, p) ==
  IF p = NULL THEN [heap |-> h, out |-> Panic]
  ELSE [heap |-> [h EXCEPT ![p].isnull = TRUE],
        out |-> Returned(0, FALSE, FALSE, FALSE)]

\* ------------------------------------------------------------------------
\* direct_function_call, lines 178-180
\* ------------------------------------------------------------------------
\* a conversion that refuses a null datum
TryInto_not_null(d) == [ok |-> ~d.is_null, val |-> d]

\* .try_into() from PgDatum<Datum> to PgDatum<Datum>: the reflexive conversion
\* of the standard library, which cannot fail
TryInto(d) == [ok |-> TRUE, val |-> d]

\* direct_function_call wrapping the result without reading the frame's flag
direct_function_call_result_noflag(r, h, p) ==
  IF p = NULL THEN [panicked |-> TRUE, val |-> PgDatum_new(0, FALSE)]
  ELSE LET t == TryInto(PgDatum_new(r, FALSE))
       IN [panicked |-> ~t.ok, val |-> t.val]

\* crate::PgDatum::new(result, fcid.as_ref().unwrap().isnull).try_into().unwrap()
direct_function_call_result(r, h, p) ==
  IF p = NULL THEN [panicked |-> TRUE, val |-> PgDatum_new(0, FALSE)]
  ELSE LET t == TryInto(PgDatum_new(r, h[p].isnull))
       IN [panicked |-> ~t.ok, val |-> t.val]

\* ------------------------------------------------------------------------
\* Reading a frame's declared slot i (0-based) in either layout
\* ------------------------------------------------------------------------
SlotValue(lay, f, i) == IF lay = "pg12" THEN f.tail[i + 1].value ELSE f.arg[i]
SlotNull(lay, f, i) == IF lay = "pg12" THEN f.tail[i + 1].isnull ELSE f.argnull[i]

\* the indices the invoked function passes to the accessors:
\* every index of a short list and the one behind it, the first index the
\* pg12 check refuses for one argument, and both sides of the array capacity
Indices == (0..MaxLen) \cup {PairSize, FuncMaxArgs - 1, FuncMaxArgs}

VARIABLES
  layout,      \* the cfg feature the crate is built with
  pc,          \* position of direct_function_call
  args,        \* the argument list of the call
  heap,        \* the frames allocated so far, a pointer is an index
  fcid,        \* the frame pointer of the call, NULL before it is made
  invocations, \* how often func has been invoked
  last,        \* the last fcinfo operation of func and its outcome
  null_called, \* func has called pg_return_null
  mutated,     \* func has overwritten argument slot 0
  ret,         \* the datum func returned
  result,      \* <<>> or <<the PgDatum direct_function_call returned>>
  panic_site   \* where a panic was raised, "none" if none

vars == <<layout, pc, args, heap, fcid, invocations, last, null_called,
          mutated, ret, result, panic_site>>

\* the locals of direct_function_call, which the loop of lines 171-174
\* determines from args
nargs == Len(args)
arg_array == StageArgs(args).arg_array
null_array == StageArgs(args).null_array

NoOp == [op |-> "none", num |-> 0, st |-> "ok", value |-> 0,
         isnull |-> FALSE, some |-> FALSE, oob |-> FALSE]

Init ==
  /\ layout \in Layouts
  /\ pc = "idle"
  /\ args = <<>>
  /\ heap = <<>>
  /\ fcid = NULL
  /\ invocations = 0
  /\ last = NoOp
  /\ null_called = FALSE
  /\ mutated = FALSE
  /\ ret = 0
  /\ result = <<>>
  /\ panic_site = "none"

\* the heap after PgBox::new_from_struct(s).to_pg() (pg10/pg11) or after
\* palloc0 and the writes into its block (pg12): one block more, holding the
\* frame; the pointer returned is the new block's index
Allocated(h, f) == Append(h, f)

\* direct_function_call whose staging goes unchecked, so that a list that is
\* too long is noticed only after the frame was made
Call_unchecked(a) ==
  /\ pc = "idle"
  /\ args' = a
  /\ pc' = "staged"
  /\ panic_site' = "none"
  /\ UNCHANGED <<layout, heap, fcid, invocations, last, null_called, mutated,
                 ret, result>>

\* direct_function_call is entered with an argument list and stages it
Call(a) ==
  /\ pc = "idle"
  /\ args' = a
  /\ LET s == StageArgs(a) IN
       /\ pc' = IF s.panicked THEN "panicked" ELSE "staged"
       /\ panic_site' = IF s.panicked THEN "staging" ELSE "none"
  /\ UNCHANGED <<layout, heap, fcid, invocations, last, null_called, mutated,
                 ret, result>>

\* line 176 handing out the block of the previous call again, its null flag
\* as that call left it
MakeFrame_reusing ==
  /\ pc = "staged"
  /\ LET f == make_function_call_info(layout, nargs, arg_array, null_array)
     IN heap' = IF heap = <<>> THEN Allocated(heap, f)
                ELSE [heap EXCEPT ![Len(heap)] =
                        [f EXCEPT !.isnull = heap[Len(heap)].isnull]]
  /\ fcid' = Len(heap')
  /\ pc' = "made"
  /\ UNCHANGED <<layout, args, invocations, last, null_called, mutated, ret,
                 result, panic_site>>

\* line 176 with two blocks allocated for the frame
MakeFrame_double ==
  /\ pc = "staged"
  /\ heap' = Allocated(Allocated(heap, palloc0(HeaderSize)),
                       make_function_call_info(layout, nargs, arg_array,
                                               null_array))
  /\ fcid' = Len(heap) + 2
  /\ pc' = "made"
  /\ UNCHANGED <<layout, args, invocations, last, null_called, mutated, ret,
                 result, panic_site>>

\* line 176: make_function_call_info allocates and fills the frame
MakeFrame ==
  /\ pc = "staged"
  /\ heap' = Allocated(heap, make_function_call_info(layout, nargs, arg_array,
                                                      null_array))
  /\ fcid' = Len(heap) + 1
  /\ pc' = "made"
  /\ UNCHANGED <<layout, args, invocations, last, null_called, mutated, ret,
                 result, panic_site>>

\* line 177 under a strictness rule: with a null argument func is skipped and
\* the frame's flag set instead
InvokeFunc_strict ==
  /\ pc = "made"
  /\ LET strict == \E i \in 1..Len(args) : PgDatum_is_null(args[i])
     IN /\ invocations' = IF strict THEN invocations ELSE invocations + 1
        /\ pc' = IF strict THEN "func_returned" ELSE "in_func"
        /\ heap' = IF strict THEN [heap EXCEPT ![fcid].isnull = TRUE] ELSE heap
  /\ UNCHANGED <<layout, args, fcid, last, null_called, mutated, ret, result,
                 panic_site>>

\* line 177: func(fcid) is entered
InvokeFunc ==
  /\ pc = "made"
  /\ invocations' = invocations + 1
  /\ pc' = "in_func"
  /\ UNCHANGED <<layout, args, heap, fcid, last, null_called, mutated, ret,
                 result, panic_site>>

\* func calls an accessor on the frame it was given; a panic or a fault ends
\* func and direct_function_call
FuncAccessor(op, num) ==
  /\ pc = "in_func"
  /\ \E o \in Accessor(op, layout, heap, fcid, num) :
       /\ last' = [op |-> op, num |-> num, st |-> o.st, value |-> o.value,
                   isnull |-> o.isnull, some |-> o.some, oob |-> o.oob]
       /\ pc' = IF o.st = "ok" THEN "in_func" ELSE "panicked"
       /\ panic_site' = IF o.st = "ok" THEN "none" ELSE "func"
  /\ heap' = Accessor_heap(op, layout, heap, fcid, num)
  /\ UNCHANGED <<layout, args, fcid, invocations, null_called, mutated, ret,
                 result>>

\* func calls pg_return_null on the frame it was given
FuncReturnNull ==
  /\ pc = "in_func"
  /\ LET r == pg_return_null(heap, fcid) IN
       /\ heap' = r.heap
       /\ last' = [op |-> "pg_return_null", num |-> 0, st |-> r.out.st,
                   value |-> r.out.value, isnull |-> FALSE, some |-> FALSE,
                   oob |-> FALSE]
       /\ pc' = IF r.out.st = "ok" THEN "in_func" ELSE "panicked"
       /\ panic_site' = IF r.out.st = "ok" THEN "none" ELSE "func"
  /\ null_called' = TRUE
  /\ UNCHANGED <<layout, args, fcid, invocations, mutated, ret, result>>

\* func writes through the frame pointer: argument slot 0 gets another raw
\* value and the opposite null flag
FuncWriteSlot ==
  /\ pc = "in_func"
  /\ ~mutated
  /\ nargs > 0
  /\ LET f == heap[fcid]
         v == (SlotValue(layout, f, 0) + 1) % (MaxDatum + 1)
         n == ~SlotNull(layout, f, 0)
     IN heap' = IF layout = "pg12"
                THEN [heap EXCEPT ![fcid].tail[1] = [value |-> v, isnull |-> n]]
                ELSE [heap EXCEPT ![fcid].arg[0] = v, ![fcid].argnull[0] = n]
  /\ mutated' = TRUE
  /\ last' = [NoOp EXCEPT !.op = "write"]
  /\ UNCHANGED <<layout, pc, args, fcid, invocations, null_called, ret, result,
                 panic_site>>

\* a panic of func that direct_function_call catches and turns into a result
FuncPanic_caught ==
  /\ pc = "in_func"
  /\ pc' = "func_returned"
  /\ panic_site' = "func"
  /\ ret' = 0
  /\ UNCHANGED <<layout, args, heap, fcid, invocations, last, null_called,
                 mutated, result>>

\* func panics on its own
FuncPanic ==
  /\ pc = "in_func"
  /\ pc' = "panicked"
  /\ panic_site' = "func"
  /\ UNCHANGED <<layout, args, heap, fcid, invocations, last, null_called,
                 mutated, ret, result>>

\* func returns the datum v
FuncReturn(v) ==
  /\ pc = "in_func"
  /\ ret' = v
  /\ pc' = "func_returned"
  /\ UNCHANGED <<layout, args, heap, fcid, invocations, last, null_called,
                 mutated, result, panic_site>>

\* lines 178-180: the result is wrapped and direct_function_call returns
Finish ==
  /\ pc = "func_returned"
  /\ LET r == direct_function_call_result(ret, heap, fcid) IN
       /\ result' = IF r.panicked THEN <<>> ELSE <<r.val>>
       /\ pc' = IF r.panicked THEN "panicked" ELSE "done"
       /\ panic_site' = IF r.panicked THEN "finish" ELSE "none"
  /\ UNCHANGED <<layout, args, heap, fcid, invocations, last, null_called,
                 mutated, ret>>

Next ==
  \/ \E a \in ArgLists : Call(a)
  \/ MakeFrame
  \/ InvokeFunc
  \/ \E op \in Accessors, num \in Indices : FuncAccessor(op, num)
  \/ FuncReturnNull
  \/ FuncWriteSlot
  \/ FuncPanic
  \/ \E v \in Datum : FuncReturn(v)
  \/ Finish

Spec == Init /\ [][Next]_vars

\* ------------------------------------------------------------------------
\* The same call in a pg10/pg11 build and in a pg12 build, side by side.
\* heap[1] is the frame of the build `layout` (pg10 or pg11), heap[2] the
\* frame of the pg12 build; last and result hold the outcome of either build
\* in this order.  func is the same function in both builds: it performs the
\* same facade operation on its frame in each, with indices below nargs.
\* ------------------------------------------------------------------------
EquivInit ==
  /\ layout \in Layouts \ {"pg12"}
  /\ pc = "idle"
  /\ args = <<>>
  /\ heap = <<>>
  /\ fcid = NULL
  /\ invocations = 0
  /\ last = <<NoOp, NoOp>>
  /\ null_called = FALSE
  /\ mutated = FALSE
  /\ ret = 0
  /\ result = <<>>
  /\ panic_site = "none"

\* line 176 in both builds
EquivMakeFrame ==
  /\ pc = "staged"
  /\ heap' = Allocated(
               Allocated(heap, make_function_call_info(layout, nargs, arg_array,
                                                       null_array)),
               make_function_call_info("pg12", nargs, arg_array, null_array))
  /\ fcid' = Len(heap) + 1
  /\ pc' = "made"
  /\ UNCHANGED <<layout, args, invocations, last, null_called, mutated, ret,
                 result, panic_site>>

\* func calls the accessor op with the valid index num, in both builds
EquivAccessor(op, num) ==
  /\ pc = "in_func"
  /\ num < nargs
  /\ \E o1 \in Accessor(op, layout, heap, fcid, num),
        o2 \in Accessor(op, "pg12", heap, fcid + 1, num) :
       /\ last' = <<[op |-> op, num |-> num, st |-> o1.st, value |-> o1.value,
                     isnull |-> o1.isnull, some |-> o1.some, oob |-> o1.oob],
                    [op |-> op, num |-> num, st |-> o2.st, value |-> o2.value,
                     isnull |-> o2.isnull, some |-> o2.some, oob |-> o2.oob]>>
       /\ pc' = IF o1.st = "ok" /\ o2.st = "ok" THEN "in_func" ELSE "panicked"
       /\ panic_site' = IF o1.st = "ok" /\ o2.st = "ok" THEN "none" ELSE "func"
  /\ heap' = Accessor_heap(op, "pg12",
                           Accessor_heap(op, layout, heap, fcid, num),
                           fcid + 1, num)
  /\ UNCHANGED <<layout, args, fcid, invocations, null_called, mutated, ret,
                 result>>

\* func calls pg_return_null, in both builds
EquivReturnNull ==
  /\ pc = "in_func"
  /\ LET r1 == pg_return_null(heap, fcid)
         r2 == pg_return_null(r1.heap, fcid + 1)
     IN /\ heap' = r2.heap
        /\ last' = <<[NoOp EXCEPT !.op = "pg_return_null", !.st = r1.out.st,
                                  !.value = r1.out.value],
                     [NoOp EXCEPT !.op = "pg_return_null", !.st = r2.out.st,
                                  !.value = r2.out.value]>>
        /\ pc' = IF r1.out.st = "ok" /\ r2.out.st = "ok"
                 THEN "in_func" ELSE "panicked"
        /\ panic_site' = IF r1.out.st = "ok" /\ r2.out.st = "ok"
                         THEN "none" ELSE "func"
  /\ null_called' = TRUE
  /\ UNCHANGED <<layout, args, fcid, invocations, mutated, ret, result>>

\* lines 178-180 in both builds
EquivFinish ==
  /\ pc = "func_returned"
  /\ LET r1 == direct_function_call_result(ret, heap, fcid)
         r2 == direct_function_call_result(ret, heap, fcid + 1)
     IN /\ result' = IF r1.panicked \/ r2.panicked THEN <<>>
                     ELSE <<r1.val, r2.val>>
        /\ pc' = IF r1.panicked \/ r2.panicked THEN "panicked" ELSE "done"
        /\ panic_site' = IF r1.panicked \/ r2.panicked THEN "finish" ELSE "none"
  /\ UNCHANGED <<layout, args, heap, fcid, invocations, last, null_called,
                 mutated, ret>>

EquivNext ==
  \/ \E a \in ArgLists : Call(a)
  \/ EquivMakeFrame
  \/ InvokeFunc
  \/ \E op \in Accessors, num \in Indices : EquivAccessor(op, num)
  \/ EquivReturnNull
  \/ FuncPanic
  \/ \E v \in Datum : FuncReturn(v)
  \/ EquivFinish

SpecEquiv == EquivInit /\ [][EquivNext]_vars

\* ------------------------------------------------------------------------
\* Consecutive calls of direct_function_call in one backend: the frames of
\* returned calls stay in the heap (nothing frees them), invocations counts
\* the calls of func so far.
\* ------------------------------------------------------------------------
SeqArgLists ==
  {<<>>} \cup {<<d>> : d \in PgDatums} \cup {LongArgs(MaxLen + 1)}

\* direct_function_call has returned and is called again: its locals are new
Again ==
  /\ pc = "done"
  /\ Len(heap) < MaxCalls
  /\ pc' = "idle"
  /\ args' = <<>>
  /\ fcid' = NULL
  /\ last' = NoOp
  /\ null_called' = FALSE
  /\ mutated' = FALSE
  /\ ret' = 0
  /\ result' = <<>>
  /\ UNCHANGED <<layout, heap, invocations, panic_site>>

SeqNext ==
  \/ \E a \in SeqArgLists : Call(a)
  \/ MakeFrame
  \/ InvokeFunc
  \/ FuncReturnNull
  \/ \E v \in Datum : FuncReturn(v)
  \/ Finish
  \/ Again

SpecSeq == Init /\ [][SeqNext]_vars

\* ------------------------------------------------------------------------
\* The doc example of direct_function_call (lines 148-162): func is
\* add_two_numbers_wrapper, which fetches argument 0 and argument 1 with
\* pg_getarg and returns their sum as a datum.  last is the sequence of the
\* fetches func has made.  What the wrapper does with a null argument is not
\* in this file: it may panic, or go on with the raw value.
\* ------------------------------------------------------------------------
Addends == {PgDatum_new(v, n) : v \in 0..MaxAddend, n \in BOOLEAN}

SumArgLists == [1..2 -> Addends]

SumInit ==
  /\ layout \in Layouts
  /\ pc = "idle"
  /\ args = <<>>
  /\ heap = <<>>
  /\ fcid = NULL
  /\ invocations = 0
  /\ last = <<>>
  /\ null_called = FALSE
  /\ mutated = FALSE
  /\ ret = 0
  /\ result = <<>>
  /\ panic_site = "none"

\* the wrapper fetches its next argument
SumGetArg ==
  /\ pc = "in_func"
  /\ Len(last) < 2
  /\ \E o \in Accessor("pg_getarg", layout, heap, fcid, Len(last)) :
       /\ last' = Append(last, [op |-> "pg_getarg", num |-> Len(last),
                                st |-> o.st, value |-> o.value,
                                isnull |-> o.isnull, some |-> o.some,
                                oob |-> o.oob])
       /\ pc' = IF o.st = "ok" THEN "in_func" ELSE "panicked"
       /\ panic_site' = IF o.st = "ok" THEN "none" ELSE "func"
  /\ heap' = Accessor_heap("pg_getarg", layout, heap, fcid, Len(last))
  /\ UNCHANGED <<layout, args, fcid, invocations, null_called, mutated, ret,
                 result>>

\* the wrapper panics over a null argument it fetched
SumPanic ==
  /\ pc = "in_func"
  /\ \E k \in 1..Len(last) : last[k].isnull
  /\ pc' = "panicked"
  /\ panic_site' = "func"
  /\ UNCHANGED <<layout, args, heap, fcid, invocations, last, null_called,
                 mutated, ret, result>>

\* the wrapper returns a + b
SumReturn ==
  /\ pc = "in_func"
  /\ Len(last) = 2
  /\ ret' = last[1].value + last[2].value
  /\ pc' = "func_returned"
  /\ UNCHANGED <<layout, args, heap, fcid, invocations, last, null_called,
                 mutated, result, panic_site>>

SumNext ==
  \/ \E a \in SumArgLists : Call(a)
  \/ MakeFrame
  \/ InvokeFunc
  \/ SumGetArg
  \/ SumPanic
  \/ SumReturn
  \/ Finish

SpecSum == SumInit /\ [][SumNext]_vars

\* ------------------------------------------------------------------------
\* A direct_function_call made by func while it runs inside a
\* direct_function_call.  The variables describe the outer call; last is the
\* record of the inner call: its position, argument list, frame pointer,
\* whether the inner function called pg_return_null, the datum it returned
\* and the inner call's result.  The outer func is suspended while the inner
\* call runs.
\* ------------------------------------------------------------------------
NoInner ==
  [pc |-> "none", args |-> <<>>, fcid |-> NULL, null_called |-> FALSE,
   ret |-> 0, result |-> <<>>]

NestInit ==
  /\ layout \in Layouts
  /\ pc = "idle"
  /\ args = <<>>
  /\ heap = <<>>
  /\ fcid = NULL
  /\ invocations = 0
  /\ last = NoInner
  /\ null_called = FALSE
  /\ mutated = FALSE
  /\ ret = 0
  /\ result = <<>>
  /\ panic_site = "none"

\* the outer func calls direct_function_call: lines 167-174 of the inner call
NestCall(a) ==
  /\ pc = "in_func"
  /\ last.pc = "none"
  /\ ~StageArgs(a).panicked
  /\ last' = [last EXCEPT !.pc = "staged", !.args = a]
  /\ UNCHANGED <<layout, pc, args, heap, fcid, invocations, null_called,
                 mutated, ret, result, panic_site>>

\* line 176 of the inner call writing its frame over the outer frame
NestMakeFrame_sharing ==
  /\ pc = "in_func"
  /\ last.pc = "staged"
  /\ heap' = [heap EXCEPT ![fcid] =
                make_function_call_info(layout, Len(last.args),
                                        StageArgs(last.args).arg_array,
                                        StageArgs(last.args).null_array)]
  /\ last' = [last EXCEPT !.pc = "made", !.fcid = fcid]
  /\ UNCHANGED <<layout, pc, args, fcid, invocations, null_called, mutated,
                 ret, result, panic_site>>

\* line 176 of the inner call
NestMakeFrame ==
  /\ pc = "in_func"
  /\ last.pc = "staged"
  /\ heap' = Allocated(heap,
                       make_function_call_info(layout, Len(last.args),
                                               StageArgs(last.args).arg_array,
                                               StageArgs(last.args).null_array))
  /\ last' = [last EXCEPT !.pc = "made", !.fcid = Len(heap) + 1]
  /\ UNCHANGED <<layout, pc, args, fcid, invocations, null_called, mutated,
                 ret, result, panic_site>>

\* line 177 of the inner call
NestInvokeFunc ==
  /\ pc = "in_func"
  /\ last.pc = "made"
  /\ last' = [last EXCEPT !.pc = "in_func"]
  /\ invocations' = invocations + 1
  /\ UNCHANGED <<layout, pc, args, heap, fcid, null_called, mutated, ret,
                 result, panic_site>>

\* the inner function calls pg_return_null on the frame it was given
NestReturnNull ==
  /\ pc = "in_func"
  /\ last.pc = "in_func"
  /\ heap' = pg_return_null(heap, last.fcid).heap
  /\ last' = [last EXCEPT !.null_called = TRUE]
  /\ UNCHANGED <<layout, pc, args, fcid, invocations, null_called, mutated,
                 ret, result, panic_site>>

\* the inner function returns the datum v
NestFuncReturn(v) ==
  /\ pc = "in_func"
  /\ last.pc = "in_func"
  /\ last' = [last EXCEPT !.pc = "func_returned", !.ret = v]
  /\ UNCHANGED <<layout, pc, args, heap, fcid, invocations, null_called,
                 mutated, ret, result, panic_site>>

\* lines 178-180 of the inner call
NestFinish ==
  /\ pc = "in_func"
  /\ last.pc = "func_returned"
  /\ LET r == direct_function_call_result(last.ret, heap, last.fcid)
     IN /\ ~r.panicked
        /\ last' = [last EXCEPT !.pc = "done", !.result = <<r.val>>]
  /\ UNCHANGED <<layout, pc, args, heap, fcid, invocations, null_called,
                 mutated, ret, result, panic_site>>

\* the outer func calls pg_return_null on its own frame
NestOuterReturnNull ==
  /\ pc = "in_func"
  /\ last.pc \in {"none", "done"}
  /\ heap' = pg_return_null(heap, fcid).heap
  /\ null_called' = TRUE
  /\ UNCHANGED <<layout, pc, args, fcid, invocations, last, mutated, ret,
                 result, panic_site>>

\* the outer func returns the datum v
NestOuterReturn(v) ==
  /\ last.pc \in {"none", "done"}
  /\ FuncReturn(v)

NestNext ==
  \/ \E a \in SeqArgLists : Call(a)
  \/ MakeFrame
  \/ InvokeFunc
  \/ \E a \in SeqArgLists : NestCall(a)
  \/ NestMakeFrame
  \/ NestInvokeFunc
  \/ NestReturnNull
  \/ \E v \in Datum : NestFuncReturn(v)
  \/ NestFinish
  \/ NestOuterReturnNull
  \/ \E v \in Datum : NestOuterReturn(v)
  \/ Finish

SpecNest == NestInit /\ [][NestNext]_vars

\* ------------------------------------------------------------------------
\* func calling the accessors and pg_return_null with a pointer of its
\* choice: the frame it was given, or the null pointer.  last also records
\* the pointer of the call.
\* ------------------------------------------------------------------------
NoPtrOp ==
  [op |-> "none", ptr |-> NULL, num |-> 0, st |-> "ok", value |-> 0,
   isnull |-> FALSE, some |-> FALSE, oob |-> FALSE]

PtrInit ==
  /\ layout \in Layouts
  /\ pc = "idle"
  /\ args = <<>>
  /\ heap = <<>>
  /\ fcid = NULL
  /\ invocations = 0
  /\ last = NoPtrOp
  /\ null_called = FALSE
  /\ mutated = FALSE
  /\ ret = 0
  /\ result = <<>>
  /\ panic_site = "none"

\* func calls the accessor op with the pointer p and the index num
PtrAccessor(op, p, num) ==
  /\ pc = "in_func"
  /\ \E o \in Accessor(op, layout, heap, p, num) :
       /\ last' = [op |-> op, ptr |-> p, num |-> num, st |-> o.st,
                   value |-> o.value, isnull |-> o.isnull, some |-> o.some,
                   oob |-> o.oob]
       /\ pc' = IF o.st = "ok" THEN "in_func" ELSE "panicked"
       /\ panic_site' = IF o.st = "ok" THEN "none" ELSE "func"
  /\ heap' = Accessor_heap(op, layout, heap, p, num)
  /\ UNCHANGED <<layout, args, fcid, invocations, null_called, mutated, ret,
                 result>>

\* func calls pg_return_null with the pointer p
PtrReturnNull(p) ==
  /\ pc = "in_func"
  /\ LET r == pg_return_null(heap, p) IN
       /\ heap' = r.heap
       /\ last' = [NoPtrOp EXCEPT !.op = "pg_return_null", !.ptr = p,
                                  !.st = r.out.st, !.value = r.out.value]
       /\ pc' = IF r.out.st = "ok" THEN "in_func" ELSE "panicked"
       /\ panic_site' = IF r.out.st = "ok" THEN "none" ELSE "func"
       /\ null_called' = (null_called \/ r.out.st = "ok")
  /\ UNCHANGED <<layout, args, fcid, invocations, mutated, ret, result>>

PtrNext ==
  \/ \E a \in ArgLists : Call(a)
  \/ MakeFrame
  \/ InvokeFunc
  \/ \E op \in Accessors, p \in {NULL, fcid}, num \in Indices :
       PtrAccessor(op, p, num)
  \/ \E p \in {NULL, fcid} : PtrReturnNull(p)
  \/ FuncPanic
  \/ \E v \in Datum : FuncReturn(v)
  \/ Finish

SpecPtr == PtrInit /\ [][PtrNext]_vars

\* ------------------------------------------------------------------------
\* func fetching its arguments with pg_getarg_pointer and pg_getarg_cstr
\* ------------------------------------------------------------------------
\* func calls pg_getarg_pointer or pg_getarg_cstr on the frame it was given
FuncPointerAccessor(op, num) ==
  /\ pc = "in_func"
  /\ \E o \in PointerAccessor(op, layout, heap, fcid, num) :
       /\ last' = [op |-> op, num |-> num, st |-> o.st, value |-> o.value,
                   isnull |-> o.isnull, some |-> o.some, oob |-> o.oob]
       /\ pc' = IF o.st = "ok" THEN "in_func" ELSE "panicked"
       /\ panic_site' = IF o.st = "ok" THEN "none" ELSE "func"
  /\ heap' = Accessor_heap("pg_getarg_datum", layout, heap, fcid, num)
  /\ UNCHANGED <<layout, args, fcid, invocations, null_called, mutated, ret,
                 result>>

PointerNext ==
  \/ \E a \in ArgLists : Call(a)
  \/ MakeFrame
  \/ InvokeFunc
  \/ \E op \in PointerAccessors, num \in Indices : FuncPointerAccessor(op, num)
  \/ FuncWriteSlot
  \/ \E v \in Datum : FuncReturn(v)
  \/ Finish

SpecPointer == Init /\ [][PointerNext]_vars

\* a pg10/pg11 frame f and a pg12 frame g are related: same header fields and
\* the same (value, null flag) in every declared slot
SameFrame(lay, f, g) ==
  /\ f.nargs = g.nargs
  /\ f.isnull = g.isnull
  /\ f.flinfo = g.flinfo
  /\ f.context = g.context
  /\ f.resultinfo = g.resultinfo
  /\ f.fncollation = g.fncollation
  /\ \A i \in 0..(f.nargs - 1) :
       /\ SlotValue(lay, f, i) = SlotValue("pg12", g, i)
       /\ SlotNull(lay, f, i) = SlotNull("pg12", g, i)
\* ------------------------------------------------------------------------
\* Properties
\* ------------------------------------------------------------------------
\* C1: in a frame built by make_function_call_info from n staged arguments
\* (n <= 100), whose slots func has not overwritten, pg_getarg_datum_raw(i)
\* returns the raw value written for argument i and pg_arg_is_null(i) returns
\* the null flag written for it, for every i < n, in the pg10/pg11 layout and
\* in the pg12 layout alike.
Thm_C1 ==
  (last.op \in {"pg_getarg_datum_raw", "pg_arg_is_null"} /\ last.num < nargs /\ ~mutated)
    => /\ last.st = "ok"
       /\ ~last.oob
       /\ (last.op = "pg_getarg_datum_raw" => last.value = arg_array[last.num])
       /\ (last.op = "pg_arg_is_null" => last.isnull = null_array[last.num])

\* a pg12 frame of two arguments whose second argument is null has been asked
\* for that null flag
Wit_C1 ==
  /\ layout = "pg12"
  /\ nargs = 2
  /\ ~mutated
  /\ last.op = "pg_arg_is_null"
  /\ last.num = 1
  /\ last.st = "ok"
  /\ last.isnull
  /\ null_array[1]

\* C2: the value direct_function_call returns is the pair of the datum func
\* returned and the frame's isnull flag as it stands after func has returned.
Thm_C2 ==
  pc = "done" => result = <<[datum |-> ret, is_null |-> heap[fcid].isnull]>>

\* a call returned a null result with a non-zero datum although its only
\* argument was not null and func had overwritten the argument slot
Wit_C2 ==
  /\ pc = "done"
  /\ mutated
  /\ Len(args) = 1
  /\ ~args[1].is_null
  /\ ret = 1
  /\ heap[fcid].isnull
  /\ result = <<[datum |-> 1, is_null |-> TRUE]>>

\* C3: a func that returns the datum pg_getarg_datum_raw(fcinfo, 0) gave it,
\* having neither called pg_return_null nor written to the frame, makes
\* direct_function_call(func, [(v, not null)]) return (v, not null).
Thm_C3 ==
  (/\ pc = "done"
   /\ Len(args) = 1
   /\ ~args[1].is_null
   /\ ~null_called
   /\ ~mutated
   /\ last.op = "pg_getarg_datum_raw"
   /\ last.num = 0
   /\ ret = last.value)
    => result = <<[datum |-> args[1].datum, is_null |-> FALSE]>>

\* such a call has returned for v = 1
Wit_C3 ==
  /\ pc = "done"
  /\ args = <<[datum |-> 1, is_null |-> FALSE]>>
  /\ ~null_called
  /\ ~mutated
  /\ last.op = "pg_getarg_datum_raw"
  /\ last.num = 0
  /\ ret = last.value
  /\ result = <<[datum |-> 1, is_null |-> FALSE]>>

\* C4: when the last thing func does is pg_return_null(fcinfo) and it
\* returns the datum that call gave it, direct_function_call returns normally,
\* without a panic of its own, and its result is null.
Thm_C4 ==
  (/\ last.op = "pg_return_null"
   /\ last.st = "ok"
   /\ ret = last.value
   /\ pc \in {"done", "panicked"}
   /\ panic_site # "func")
    => /\ pc = "done"
       /\ Len(result) = 1
       /\ result[1].is_null

\* a call whose only argument is null and whose func returned pg_return_null's
\* datum has returned a null result
Wit_C4 ==
  /\ pc = "done"
  /\ args = <<[datum |-> 0, is_null |-> TRUE]>>
  /\ last.op = "pg_return_null"
  /\ ret = 0
  /\ result = <<[datum |-> 0, is_null |-> TRUE]>>

\* C5 as claimed: in the pg12 layout every accessor called with an index
\* i >= nargs panics and reads no memory outside the frame.
Claim_C5 ==
  (layout = "pg12" /\ last.op \in Accessors /\ last.num >= nargs)
    => (last.st = "panic" /\ ~last.oob)

\* C6 as claimed: in the pg10/pg11 layout every accessor called with an index
\* i >= nargs panics, also for nargs <= i < 100.
Claim_C6 ==
  (layout \in {"pg10", "pg11"} /\ last.op \in Accessors /\ last.num >= nargs)
    => last.st = "panic"

\* C7: in the pg10/pg11 layout a call with more than 100 arguments panics
\* while the arguments are staged: no frame is made, func is not invoked and
\* no result is returned.
Thm_C7 ==
  (layout \in {"pg10", "pg11"} /\ Len(args) > FuncMaxArgs)
    => /\ pc = "panicked"
       /\ panic_site = "staging"
       /\ heap = <<>>
       /\ fcid = NULL
       /\ invocations = 0
       /\ result = <<>>

\* a pg10 call with 101 arguments has panicked
Wit_C7 ==
  /\ layout = "pg10"
  /\ Len(args) = FuncMaxArgs + 1
  /\ pc = "panicked"
  /\ panic_site = "staging"

\* C8 as claimed: in the pg12 layout a call with an argument list of any
\* length n, unless func itself fails, ends with a frame of n slots, func
\* invoked and a result returned.
Claim_C8 ==
  (layout = "pg12" /\ pc \in {"done", "panicked"} /\ panic_site # "func")
    => /\ pc = "done"
       /\ heap[fcid].nargs = Len(args)
       /\ Len(heap[fcid].tail) = Len(args)
       /\ invocations = 1
       /\ Len(result) = 1

\* C8 as amended: in the pg12 layout the staging arrays set a ceiling of 100.
\* A call with n <= 100 arguments, unless func itself fails, ends with a frame
\* whose count is n and whose n slots hold the arguments (slot 0 excepted once
\* func has overwritten it), func invoked once and a result returned; a call
\* with n > 100 arguments panics during staging with no frame made and func
\* not invoked.
Thm_C8 ==
  (layout = "pg12" /\ pc \in {"done", "panicked"} /\ panic_site # "func")
    => IF Len(args) <= FuncMaxArgs
       THEN /\ pc = "done"
            /\ heap[fcid].nargs = Len(args)
            /\ Len(heap[fcid].tail) = Len(args)
            /\ \A i \in 1..Len(args) :
                 (mutated /\ i = 1) \/
                 heap[fcid].tail[i] =
                   [value |-> PgDatum_into_datum(args[i]),
                    isnull |-> PgDatum_is_null(args[i])]
            /\ invocations = 1
            /\ Len(result) = 1
       ELSE /\ pc = "panicked"
            /\ panic_site = "staging"
            /\ heap = <<>>
            /\ invocations = 0
            /\ result = <<>>

\* a pg12 call with exactly 100 arguments has returned
Wit_C8 ==
  /\ layout = "pg12"
  /\ Len(args) = FuncMaxArgs
  /\ pc = "done"
  /\ Len(heap[fcid].tail) = FuncMaxArgs

\* C9: in the pg12 layout the frame of a call with n arguments was requested
\* from palloc0 with size_of::<FunctionCallInfoBaseData>() +
\* n * size_of::<NullableDatum>() bytes, and the number of pairs behind the
\* header equals the frame's count.
Thm_C9 ==
  (layout = "pg12" /\ fcid # NULL)
    => /\ heap[fcid].size =
            SizeOf(FunctionCallInfoBaseDataFields)
              + Len(args) * SizeOf(NullableDatumFields)
       /\ Len(heap[fcid].tail) = heap[fcid].nargs
       /\ heap[fcid].nargs = Len(args)

\* a pg12 frame for 8 arguments exists: 32 + 8 * 16 bytes
Wit_C9 ==
  /\ layout = "pg12"
  /\ fcid # NULL
  /\ Len(args) = 8
  /\ heap[fcid].size = 160
  /\ Len(heap[fcid].tail) = 8

\* C10: for a valid index i, pg_getarg_datum(i) is None exactly when
\* pg_arg_is_null(i) is true on the same frame, and otherwise it is Some(r)
\* with r = pg_getarg_datum_raw(i).
Thm_C10 ==
  (last.op = "pg_getarg_datum" /\ last.num < nargs)
    => /\ last.st = "ok"
       /\ \A n \in pg_arg_is_null(layout, heap, fcid, last.num) :
            n.st = "ok" /\ (~last.some <=> n.isnull)
       /\ \A r \in pg_getarg_datum_raw(layout, heap, fcid, last.num) :
            r.st = "ok" /\ (last.some => last.value = r.value)

\* in a frame of two arguments, (1, not null) and (0, null), pg_getarg_datum(1)
\* returned None
Wit_C10 ==
  /\ args = <<[datum |-> 1, is_null |-> FALSE], [datum |-> 0, is_null |-> TRUE]>>
  /\ ~mutated
  /\ last.op = "pg_getarg_datum"
  /\ last.num = 1
  /\ last.st = "ok"
  /\ ~last.some

\* C11: for a valid index i, pg_getarg_datum_raw(i) returns the raw value
\* that slot i of the frame holds, whatever the slot's null flag is.
Thm_C11 ==
  (last.op = "pg_getarg_datum_raw" /\ last.num < nargs)
    => /\ last.st = "ok"
       /\ last.value = SlotValue(layout, heap[fcid], last.num)

\* the raw value 1 of a null argument has been read
Wit_C11 ==
  /\ last.op = "pg_getarg_datum_raw"
  /\ last.num = 0
  /\ nargs = 1
  /\ SlotNull(layout, heap[fcid], 0)
  /\ last.st = "ok"
  /\ last.value = 1

\* C12: pg_return_null on a frame succeeds whatever the frame's state was;
\* afterwards the frame's isnull flag is true, and the call returned the
\* datum 0.
Thm_C12 ==
  last.op = "pg_return_null"
    => /\ last.st = "ok"
       /\ last.value = 0
       /\ heap[fcid].isnull

\* pg_return_null has been called on a frame whose slot 0 func had overwritten
Wit_C12 ==
  /\ last.op = "pg_return_null"
  /\ mutated
  /\ pc = "in_func"
  /\ heap[fcid].isnull

\* C13: the count of a frame is the length of the argument list of its call,
\* which is at most 100 so that the 16-bit field holds it unchanged, from the
\* construction of the frame on and after every accessor and pg_return_null
\* call on it.
Thm_C13 ==
  fcid # NULL
    => /\ heap[fcid].nargs = Len(args)
       /\ Len(args) <= FuncMaxArgs

\* a call with 8 arguments has returned after func called pg_return_null
Wit_C13 ==
  /\ pc = "done"
  /\ Len(args) = 8
  /\ null_called
  /\ heap[fcid].nargs = 8

\* C14: a read accessor called with a valid index leaves every field of every
\* frame as it was (count, isnull flag, slots); and pg_arg_is_null called
\* again on the same index of a frame nobody wrote to in between returns
\* what it returned before.
\* (A step of func that leaves an accessor's record in last is the call of
\* that accessor, or a step after it that touches neither last nor heap.)
Thm_C14 ==
  [][(pc = "in_func" /\ last'.op \in Accessors /\ last'.num < nargs)
       => /\ heap' = heap
          /\ (/\ last'.op = "pg_arg_is_null"
              /\ last.op = "pg_arg_is_null"
              /\ last.num = last'.num
              /\ last.st = "ok")
               => (last'.st = "ok" /\ last'.isnull = last.isnull)]_vars

\* pg_arg_is_null has answered TRUE for slot 1 of a two-argument frame that
\* func had written to and marked null before
Wit_C14 ==
  /\ last.op = "pg_arg_is_null"
  /\ last.num = 1
  /\ last.st = "ok"
  /\ last.isnull
  /\ nargs = 2
  /\ mutated
  /\ heap[fcid].isnull
  /\ pc = "in_func"

\* C17: inside direct_function_call the frame is allocated, its count set
\* and all n slots written before func is invoked; func is invoked exactly
\* once; and the result, which carries the frame's isnull flag, exists only
\* after func has returned.
Thm_C17 ==
  /\ invocations <= 1
  /\ invocations = 1 <=> pc \in {"in_func", "func_returned", "done"}
                           \/ panic_site \in {"func", "finish"}
  /\ invocations = 1 => fcid # NULL
  /\ pc = "made"
       => /\ invocations = 0
          /\ fcid # NULL
          /\ heap[fcid].nargs = nargs
          /\ \A i \in 0..(nargs - 1) :
               /\ SlotValue(layout, heap[fcid], i) = arg_array[i]
               /\ SlotNull(layout, heap[fcid], i) = null_array[i]
  /\ result # <<>> => (pc = "done" /\ invocations = 1)
  /\ pc = "done" => result # <<>>

\* a call with two arguments, of which func overwrote one, has returned
Wit_C17 ==
  /\ pc = "done"
  /\ invocations = 1
  /\ nargs = 2
  /\ mutated
  /\ result # <<>>

\* C18: a panic inside func is not caught: direct_function_call ends by that
\* panic and returns no result.
Thm_C18 ==
  panic_site = "func" => (pc = "panicked" /\ result = <<>>)

\* func has set the null flag and then panicked
Wit_C18 ==
  /\ panic_site = "func"
  /\ pc = "panicked"
  /\ last.op = "pg_return_null"
  /\ last.st = "ok"
  /\ heap[fcid].isnull
  /\ result = <<>>

\* C19: a direct_function_call allocates exactly one frame, at
\* make_function_call_info, and that frame is still allocated when the call
\* has returned; the accessors and pg_return_null, called by func, neither
\* allocate nor free.
Thm_C19 ==
  /\ (pc \in {"idle", "staged"} \/ panic_site = "staging") => Len(heap) = 0
  /\ (pc \in {"made", "in_func", "func_returned", "done"}
        \/ panic_site \in {"func", "finish"})
       => (Len(heap) = 1 /\ fcid = 1)

\* the call has returned after func read an argument and called
\* pg_return_null, and its frame is the one block
Wit_C19 ==
  /\ pc = "done"
  /\ null_called
  /\ last.op = "pg_getarg"
  /\ last.st = "ok"
  /\ Len(heap) = 1

\* C20: apart from the count and the n written slots the synthesized frame is
\* zero: flinfo, context and resultinfo are null and fncollation is
\* InvalidOid (and stay so), and as the frame is handed to func isnull is
\* false, the pg10/pg11 slots n..99 hold (0, false) and the pg12 block ends
\* after its n pairs.
Thm_C20 ==
  fcid # NULL
    => /\ heap[fcid].flinfo = NULL
       /\ heap[fcid].context = NULL
       /\ heap[fcid].resultinfo = NULL
       /\ heap[fcid].fncollation = InvalidOid
       /\ pc = "made"
            => /\ ~heap[fcid].isnull
               /\ layout # "pg12"
                    => \A i \in nargs..(FuncMaxArgs - 1) :
                         /\ heap[fcid].arg[i] = 0
                         /\ ~heap[fcid].argnull[i]
               /\ layout = "pg12"
                    => /\ Len(heap[fcid].tail) = nargs
                       /\ heap[fcid].size = HeaderSize + nargs * PairSize

\* a pg10/pg11 frame for two arguments, the first one 1, has been made
Wit_C20 ==
  /\ pc = "made"
  /\ layout # "pg12"
  /\ nargs = 2
  /\ heap[fcid].arg[0] = 1
  /\ heap[fcid].arg[2] = 0

\* C15: a pg10/pg11 frame and a pg12 frame built from the same argument
\* list, put through the same facade operations (accessors with valid
\* indices, pg_return_null, direct_function_call of the same function): every
\* operation returns the same in both, the two frames stay related, and both
\* calls end the same way with the same result.
Thm_C15 ==
  /\ last[1] = last[2]
  /\ Len(heap) = 2 => SameFrame(layout, heap[1], heap[2])
  /\ Len(result) = 2 => result[1] = result[2]
  /\ pc = "done" => Len(result) = 2
  /\ panic_site \in {"none", "staging"} \/ (panic_site = "func" /\ last[1].st = "ok")

\* both builds have returned a null result for a 100-argument call in which
\* func called pg_return_null and then read the datum 1 of argument 16
Wit_C15 ==
  /\ pc = "done"
  /\ nargs = FuncMaxArgs
  /\ null_called
  /\ last[2].op = "pg_getarg_datum"
  /\ last[2].num = PairSize
  /\ last[2].some
  /\ last[2].value = 1
  /\ Len(result) = 2
  /\ PgDatum_is_null(result[2])

\* C16: every direct_function_call works on a frame of its own, allocated by
\* that call: as it is handed to func its isnull flag is false and its slots
\* hold this call's arguments and nothing of an earlier call; so the result
\* of a call whose func did not call pg_return_null is not null, whatever
\* earlier calls did to their frames.
Thm_C16 ==
  /\ fcid # NULL => fcid = Len(heap)
  /\ Len(heap) = invocations + (IF pc = "made" THEN 1 ELSE 0)
  /\ pc = "made"
       => /\ ~heap[fcid].isnull
          /\ heap[fcid].nargs = nargs
          /\ \A i \in 0..(nargs - 1) :
               /\ SlotValue(layout, heap[fcid], i) = PgDatum_into_datum(args[i + 1])
               /\ SlotNull(layout, heap[fcid], i) = PgDatum_is_null(args[i + 1])
          /\ layout # "pg12"
               => \A i \in nargs..(FuncMaxArgs - 1) :
                    heap[fcid].arg[i] = 0 /\ ~heap[fcid].argnull[i]
          /\ layout = "pg12" => Len(heap[fcid].tail) = nargs
  /\ (pc = "func_returned" /\ ~null_called) => ~heap[fcid].isnull
  /\ (pc = "done" /\ ~null_called) => ~PgDatum_is_null(result[1])

\* after a call with more arguments whose func called pg_return_null, a call
\* with one argument has returned a result that is not null
Wit_C16 ==
  /\ Len(heap) = 2
  /\ heap[1].isnull
  /\ heap[1].nargs = MaxLen + 1
  /\ pc = "done"
  /\ nargs = 1
  /\ ~null_called
  /\ ~PgDatum_is_null(result[1])

\* C21: for a valid index i, the wrapper pg_getarg(fcinfo, i) returns is
\* PgDatum::new of exactly what pg_getarg_datum_raw(fcinfo, i) and
\* pg_arg_is_null(fcinfo, i) return on the same frame: neither component is
\* changed, and the call cannot fail.
Thm_C21 ==
  (last.op = "pg_getarg" /\ last.num < nargs)
    => /\ last.st = "ok"
       /\ \A r \in pg_getarg_datum_raw(layout, heap, fcid, last.num),
             n \in pg_arg_is_null(layout, heap, fcid, last.num) :
            /\ r.st = "ok"
            /\ n.st = "ok"
            /\ PgDatum_new(last.value, last.isnull) = PgDatum_new(r.value, n.isnull)

\* pg_getarg has wrapped the null argument 1 whose raw value is 1
Wit_C21 ==
  /\ last.op = "pg_getarg"
  /\ last.num = 1
  /\ nargs = 2
  /\ last.st = "ok"
  /\ last.value = 1
  /\ last.isnull

\* C22: direct_function_call(add_two_numbers_wrapper, [a, b]) with a and b
\* not null returns the datum a + b, not null; the wrapper found a in
\* argument 0 and b in argument 1, both not null.
Thm_C22 ==
  (/\ pc = "done"
   /\ ~PgDatum_is_null(args[1])
   /\ ~PgDatum_is_null(args[2]))
    => /\ last[1].num = 0
       /\ last[1].value = PgDatum_into_datum(args[1])
       /\ ~last[1].isnull
       /\ last[2].num = 1
       /\ last[2].value = PgDatum_into_datum(args[2])
       /\ ~last[2].isnull
       /\ result = <<PgDatum_new(PgDatum_into_datum(args[1])
                                   + PgDatum_into_datum(args[2]), FALSE)>>

\* the call of the doc example, 2 and 3, has returned 5
Wit_C22 ==
  /\ pc = "done"
  /\ args = <<PgDatum_new(2, FALSE), PgDatum_new(3, FALSE)>>
  /\ result = <<PgDatum_new(5, FALSE)>>

\* C23: direct_function_call has no strictness rule.  With null arguments in
\* the list (some or all) func is still invoked, exactly once: the call never
\* gets past the frame's construction without entering func.  Inside func
\* pg_arg_is_null shows each argument's null flag.  And when func returns
\* without pg_return_null the result is not null, whatever the arguments.
Thm_C23 ==
  /\ (\E i \in 1..Len(args) : PgDatum_is_null(args[i]))
       => /\ pc \in {"in_func", "func_returned", "done"} => invocations = 1
          /\ (pc = "panicked" /\ Len(args) <= FuncMaxArgs) => invocations = 1
          /\ pc \in {"idle", "staged", "made"} => invocations = 0
  /\ (last.op = "pg_arg_is_null" /\ last.num < nargs /\ ~mutated)
       => (last.st = "ok" /\ last.isnull = PgDatum_is_null(args[last.num + 1]))
  /\ (pc = "done" /\ ~null_called) => ~PgDatum_is_null(result[1])

\* a call whose two arguments are both null has returned a result that is
\* not null; func saw the null flag of argument 1 and left the frame alone
Wit_C23 ==
  /\ pc = "done"
  /\ Len(args) = 2
  /\ PgDatum_is_null(args[1])
  /\ PgDatum_is_null(args[2])
  /\ last.op = "pg_arg_is_null"
  /\ last.num = 1
  /\ last.isnull
  /\ ~null_called
  /\ ~mutated
  /\ invocations = 1
  /\ ~PgDatum_is_null(result[1])

\* C24: for an argument list of length n, 0 <= n <= 100, in every layout,
\* no code of direct_function_call itself panics: not the staging, not the
\* frame's construction, not the wrapping of the result once func has
\* returned.  func is entered once, on a frame whose count is n, and the only
\* panics are those raised inside func (its own, or an accessor it called
\* with an index that is not valid).
Thm_C24 ==
  Len(args) <= FuncMaxArgs
    => /\ panic_site \notin {"staging", "finish"}
       /\ pc # "idle" => pc # "panicked" \/ panic_site = "func"
       /\ pc = "in_func" => (invocations = 1 /\ heap[fcid].nargs = Len(args))
       /\ pc = "func_returned"
            => ~direct_function_call_result(ret, heap, fcid).panicked
       /\ pc = "done" => (invocations = 1 /\ Len(result) = 1)
       /\ (panic_site = "func" /\ last.st # "ok") => last.num >= Len(args)

\* a pg12 call with exactly 100 arguments has returned
Wit_C24 ==
  /\ layout = "pg12"
  /\ Len(args) = FuncMaxArgs
  /\ pc = "done"
  /\ invocations = 1
  /\ heap[fcid].nargs = FuncMaxArgs
  /\ Len(result) = 1

\* C25: in every layout a call with more than 100 arguments fails while the
\* arguments are staged: whenever such a list is the call's, the call has
\* panicked at the staging, func has not been invoked, no frame has been
\* allocated and nothing is returned.
Thm_C25 ==
  Len(args) > FuncMaxArgs
    => /\ pc = "panicked"
       /\ panic_site = "staging"
       /\ invocations = 0
       /\ heap = <<>>
       /\ fcid = NULL
       /\ last = NoOp
       /\ result = <<>>

\* a pg11 call with 101 arguments has panicked
Wit_C25 ==
  /\ layout = "pg11"
  /\ Len(args) = FuncMaxArgs + 1
  /\ pc = "panicked"
  /\ heap = <<>>

\* C26: a call of pg_return_null changes nothing but the frame's isnull
\* flag, which it sets: count, header pointers, collation and every slot stay
\* as they were; and a second call right after the first leaves the frame as
\* the first left it and returns the same zero datum.
\* (A step of func that leaves pg_return_null's record in last is the call of
\* pg_return_null, or a step after it that touches neither last nor heap.)
Thm_C26 ==
  [][(pc = "in_func" /\ last'.op = "pg_return_null")
       => /\ heap' = [heap EXCEPT ![fcid].isnull = TRUE]
          /\ last'.st = "ok"
          /\ last'.value = 0
          /\ last.op = "pg_return_null" => (heap' = heap /\ last' = last)]_vars

\* func has returned after calling pg_return_null on a two-argument frame
\* whose slot 0 it had overwritten: count and slots are as before the call
Wit_C26 ==
  /\ pc = "func_returned"
  /\ last.op = "pg_return_null"
  /\ mutated
  /\ nargs = 2
  /\ heap[fcid].isnull
  /\ heap[fcid].nargs = 2
  /\ SlotValue(layout, heap[fcid], 1) = PgDatum_into_datum(args[2])

\* C27: a direct_function_call made by func from inside a
\* direct_function_call works on a frame of its own.  Whatever the inner call
\* is given and whatever the inner function does, the outer frame keeps its
\* count and the outer arguments in its slots, its isnull flag is set exactly
\* when the outer func itself called pg_return_null, and the outer result is
\* the outer func's return value with that flag.
Thm_C27 ==
  /\ last.fcid # NULL => (fcid # NULL /\ last.fcid # fcid)
  /\ fcid # NULL
       => /\ heap[fcid].nargs = Len(args)
          /\ \A i \in 0..(Len(args) - 1) :
               /\ SlotValue(layout, heap[fcid], i) = PgDatum_into_datum(args[i + 1])
               /\ SlotNull(layout, heap[fcid], i) = PgDatum_is_null(args[i + 1])
          /\ heap[fcid].isnull = null_called
  /\ last.fcid # NULL => heap[last.fcid].isnull = last.null_called
  /\ pc = "done" => result = <<PgDatum_new(ret, null_called)>>

\* the outer call has returned a result that is not null although the inner
\* call, made with a longer argument list, returned null
Wit_C27 ==
  /\ pc = "done"
  /\ Len(args) = 1
  /\ ~null_called
  /\ ~PgDatum_is_null(result[1])
  /\ last.pc = "done"
  /\ Len(last.args) = MaxLen + 1
  /\ last.null_called
  /\ PgDatum_is_null(last.result[1])

\* C28: pg_getarg, pg_arg_is_null, pg_getarg_datum, pg_getarg_datum_raw and
\* pg_return_null, called with the null frame pointer, panic: none returns a
\* value, whatever the index, and no frame is read or written (the frame of
\* the running call has its flag set only by pg_return_null calls that were
\* given that frame).
Thm_C28 ==
  /\ (last.op # "none" /\ last.ptr = NULL)
       => /\ last.st = "panic"
          /\ ~last.oob
          /\ pc = "panicked"
          /\ panic_site = "func"
          /\ result = <<>>
  /\ fcid # NULL => heap[fcid].isnull = null_called

\* pg_return_null(NULL) has panicked and the flag of the call's two-argument
\* frame is still false
Wit_C28 ==
  /\ last.op = "pg_return_null"
  /\ last.ptr = NULL
  /\ last.st = "panic"
  /\ nargs = 2
  /\ ~heap[fcid].isnull

====
